---- MODULE Spec2Model ----
(***************************************************************************)
(* Model of url.py: the LRUCache (doubly linked list + dictionary), the    *)
(* URLDatabase (three dictionaries and the sequence counter) and the       *)
(* URLShortener engine (create_short_url, get_long_url, get_url_stats).    *)
(*                                                                         *)
(* Python strings are sequences of one-character strings, so that the code *)
(* format, the base-62 encoding and the URL validation are computed as the *)
(* code computes them.  Python None is the value None for strings and      *)
(* NoneInt for integers and node references.                               *)
(***************************************************************************)
EXTENDS Integers, Sequences, FiniteSets, TLC

\* ------------------------------------------------------------------ bounds

\* Largest cache_size a URLShortener is constructed with.
MaxCacheSize == 1

\* Largest capacity an LRUCache on its own is constructed with.
MaxCapacity == 2

\* Cap on a record's visit_count (an unbounded counter in the code).
MaxVisits == 1

\* ------------------------------------------------------- Python values

\* None where a string (or a dictionary value that is a string) is expected.
None == <<"None">>

\* None where an integer or a node reference is expected.
NoneInt == -1

\* Truthiness of an optional string: None and "" are falsy.
TruthyStr(s) == s # None /\ s # <<>>

\* Truthiness of an optional integer: None and 0 are falsy.
TruthyInt(n) == n # NoneInt /\ n # 0

\* dict.get(key): the value, or None when the key is absent.
DictGet(d, key) == IF key \in DOMAIN d THEN d[key] ELSE None

\* d[key] = value on a dictionary modelled as a function.
DictSet(d, key, value) ==
    [k \in DOMAIN d \cup {key} |-> IF k = key THEN value ELSE d[k]]

\* del d[key]
DictDel(d, key) == [k \in DOMAIN d \ {key} |-> d[k]]

EmptyDict == [k \in {} |-> None]

\* --------------------------------------------------------------- LRUCache

\* Node references: the two sentinels, then the nodes allocated by put.
HeadRef == 0
TailRef == 1

\* Node(key, value): prev and next are None.
Node(key, value) ==
    [key |-> key, value |-> value, prev |-> NoneInt, next |-> NoneInt]

\* LRUCache.__init__: empty dictionary, head and tail sentinels linked.
LRUCacheNew(capacity) ==
    [capacity |-> capacity,
     cache    |-> EmptyDict,
     head     |-> HeadRef,
     tail     |-> TailRef,
     nodes    |-> (HeadRef :> [Node(None, None) EXCEPT !.next = TailRef]) @@
                  (TailRef :> [Node(None, None) EXCEPT !.prev = HeadRef])]

\* LRUCache._remove that leaves out the second write (node.next.prev).
LRURemoveForwardOnly(l, node) ==
    [l EXCEPT !.nodes =
        [l.nodes EXCEPT ![l.nodes[node].prev].next = l.nodes[node].next]]

\* LRUCache._remove: two pointer writes, in the order of the code.
LRURemove(l, node) ==
    LET n1 == [l.nodes EXCEPT ![l.nodes[node].prev].next = l.nodes[node].next]
        n2 == [n1 EXCEPT ![n1[node].next].prev = n1[node].prev]
    IN  [l EXCEPT !.nodes = n2]

\* LRUCache._add: link the node right after head, four writes in code order.
LRUAdd(l, node) ==
    LET n1 == [l.nodes EXCEPT ![node].prev = l.head]
        n2 == [n1 EXCEPT ![node].next = n1[l.head].next]
        n3 == [n2 EXCEPT ![n2[l.head].next].prev = node]
        n4 == [n3 EXCEPT ![l.head].next = node]
    IN  [l EXCEPT !.nodes = n4]

\* The reference a newly constructed Node gets: one no live node has.
FreshRef(l) ==
    CHOOSE r \in 2..(Cardinality(DOMAIN l.nodes) + 2) :
        /\ r \notin DOMAIN l.nodes
        /\ \A q \in 2..(r - 1) : q \in DOMAIN l.nodes

\* Node references reachable from the cache object (sentinels, dictionary
\* values, and prev/next links from those).
RECURSIVE ReachFrom(_, _)
ReachFrom(l, seen) ==
    LET more == { r \in DOMAIN l.nodes :
                    \E s \in seen : l.nodes[s].prev = r \/ l.nodes[s].next = r }
    IN  IF more \subseteq seen THEN seen ELSE ReachFrom(l, seen \cup more)

\* Python's garbage collection: nodes nothing refers to any more are dropped.
Collect(l) ==
    LET roots == ({l.head, l.tail} \cup { l.cache[k] : k \in DOMAIN l.cache })
                    \cap DOMAIN l.nodes
        live  == ReachFrom(l, roots)
    IN  [l EXCEPT !.nodes = [r \in live |-> l.nodes[r]]]

\* LRUCache.get that returns the value of a hit without moving its node.
LRUGetNoTouch(l, key) ==
    IF key \in DOMAIN l.cache
    THEN [lru |-> l, value |-> l.nodes[l.cache[key]].value]
    ELSE [lru |-> l, value |-> None]

\* LRUCache.get that, on a miss, moves the node before tail to the front.
LRUGetMissPromotes(l, key) ==
    IF key \in DOMAIN l.cache
    THEN LET node == l.cache[key]
             l1   == LRURemove(l, node)
             l2   == LRUAdd(l1, node)
         IN  [lru |-> l2, value |-> l2.nodes[node].value]
    ELSE LET node == l.nodes[l.tail].prev
         IN  [lru   |-> IF node = l.head THEN l
                        ELSE LRUAdd(LRURemove(l, node), node),
              value |-> None]

\* LRUCache.get: on a hit move the node to the front and return its value.
LRUGet(l, key) ==
    IF key \in DOMAIN l.cache
    THEN LET node == l.cache[key]
             l1   == LRURemove(l, node)
             l2   == LRUAdd(l1, node)
         IN  [lru |-> l2, value |-> l2.nodes[node].value]
    ELSE [lru |-> l, value |-> None]

\* LRUCache.put without the eviction.
LRUPutNoEvict(l, key, value) ==
    LET l1   == IF key \in DOMAIN l.cache THEN LRURemove(l, l.cache[key]) ELSE l
        node == FreshRef(l1)
        l2   == [l1 EXCEPT !.nodes = (node :> Node(key, value)) @@ l1.nodes]
        l3   == LRUAdd(l2, node)
    IN  Collect([l3 EXCEPT !.cache = DictSet(l3.cache, key, node)])

\* LRUCache.put: unlink an existing node of the key, link a new node at the
\* front, index it, and evict the node before tail when over capacity.
LRUPut(l, key, value) ==
    LET l1   == IF key \in DOMAIN l.cache THEN LRURemove(l, l.cache[key]) ELSE l
        node == FreshRef(l1)
        l2   == [l1 EXCEPT !.nodes = (node :> Node(key, value)) @@ l1.nodes]
        l3   == LRUAdd(l2, node)
        l4   == [l3 EXCEPT !.cache = DictSet(l3.cache, key, node)]
        l5   == IF Cardinality(DOMAIN l4.cache) > l4.capacity
                THEN LET lru_node == l4.nodes[l4.tail].prev
                         l4r      == LRURemove(l4, lru_node)
                     IN  [l4r EXCEPT
                            !.cache = DictDel(l4r.cache, l4r.nodes[lru_node].key)]
                ELSE l4
    IN  Collect(l5)

\* The keys of the linked list read forward from head (most recent first).
RECURSIVE ListFrom(_, _, _)
ListFrom(l, ref, fuel) ==
    IF ref = l.tail \/ ref = NoneInt \/ ref \notin DOMAIN l.nodes \/ fuel = 0
    THEN <<>>
    ELSE <<l.nodes[ref].key>> \o ListFrom(l, l.nodes[ref].next, fuel - 1)

ListForward(l) ==
    ListFrom(l, l.nodes[l.head].next, Cardinality(DOMAIN l.nodes))

\* ------------------------------------------------------ Python integers

\* The sequence counter is a Python int, which has no upper limit.  It is
\* held as two limbs, hi * LimbBase + lo with 0 <= lo < LimbBase, so that
\* values beyond the checker's machine integers are computed exactly.
LimbBase == 62 * 62 * 62 * 62

\* The Python int n, for 0 <= n < LimbBase.
IntOf(n) == [hi |-> 0, lo |-> n]

\* num + 1
IntInc(num) ==
    IF num.lo + 1 = LimbBase
    THEN [hi |-> num.hi + 1, lo |-> 0]
    ELSE [hi |-> num.hi, lo |-> num.lo + 1]

\* num + k for a small k >= 0
RECURSIVE IntAdd(_, _)
IntAdd(num, k) == IF k = 0 THEN num ELSE IntAdd(IntInc(num), k - 1)

\* divmod(num, base) for 2 <= base <= 62: long division over the limbs.
IntDivMod(num, base) ==
    LET t == (num.hi % base) * LimbBase + num.lo
    IN  [quot |-> [hi |-> num.hi \div base, lo |-> t \div base],
         rem  |-> t % base]

\* ------------------------------------------------------------ URLDatabase

\* URLDatabase.__init__: three empty dictionaries and the counter at 0.
URLDatabaseNew ==
    [url_to_code |-> EmptyDict,
     code_to_url |-> EmptyDict,
     stats       |-> [k \in {} |-> [created_at |-> 0, expires_at |-> NoneInt,
                                    visit_count |-> 0]],
     counter     |-> IntOf(0)]

\* URLDatabase.store that does not write code_to_url.
DbStoreNoReverse(d, short_code, long_url, expiry, timestamp) ==
    [d EXCEPT
       !.url_to_code = DictSet(d.url_to_code, long_url, short_code),
       !.stats       = DictSet(d.stats, short_code,
                               [created_at  |-> timestamp,
                                expires_at  |-> expiry,
                                visit_count |-> 0])]

\* URLDatabase.store: overwrite both mappings and reset the statistics;
\* created_at is the clock reading taken inside store.
DbStore(d, short_code, long_url, expiry, timestamp) ==
    [d EXCEPT
       !.url_to_code = DictSet(d.url_to_code, long_url, short_code),
       !.code_to_url = DictSet(d.code_to_url, short_code, long_url),
       !.stats       = DictSet(d.stats, short_code,
                               [created_at  |-> timestamp,
                                expires_at  |-> expiry,
                                visit_count |-> 0])]

\* URLDatabase.get_url that looks the code up in url_to_code.
DbGetUrlWrongDict(d, short_code) == DictGet(d.url_to_code, short_code)

\* URLDatabase.get_url
DbGetUrl(d, short_code) == DictGet(d.code_to_url, short_code)

\* URLDatabase.get_code that looks the URL up in code_to_url.
DbGetCodeWrongDict(d, long_url) == DictGet(d.code_to_url, long_url)

\* URLDatabase.get_code
DbGetCode(d, long_url) == DictGet(d.url_to_code, long_url)

\* URLDatabase.increment_visits: no-op for an unknown code.
DbIncrementVisits(d, short_code) ==
    IF short_code \in DOMAIN d.stats
    THEN [d EXCEPT !.stats[short_code].visit_count = @ + 1]
    ELSE d

\* ----------------------------------------------------------- URLShortener

\* self.charset, indexed from 1 (charset[i + 1] is Python's charset[i]).
Charset ==
    <<"0", "1", "2", "3", "4", "5", "6", "7", "8", "9", "a", "b", "c",
      "d", "e", "f", "g", "h", "i", "j", "k", "l", "m", "n", "o", "p",
      "q", "r", "s", "t", "u", "v", "w", "x", "y", "z", "A", "B", "C",
      "D", "E", "F", "G", "H", "I", "J", "K", "L", "M", "N", "O", "P",
      "Q", "R", "S", "T", "U", "V", "W", "X", "Y", "Z">>

CharsetSet == { Charset[i] : i \in 1..Len(Charset) }

\* The default of _generate_code's length parameter.
CodeLength == 7

\* str.rjust(length, '0')
RECURSIVE Rjust(_, _)
Rjust(s, length) == IF Len(s) >= length THEN s ELSE Rjust(<<"0">> \o s, length)

\* The while loop of _encode_base62: digits appended least significant
\* first, then reversed.
RECURSIVE EncodeDigits(_)
EncodeDigits(num) ==
    IF num = IntOf(0) THEN <<>>
    ELSE LET dm == IntDivMod(num, Len(Charset))
         IN  EncodeDigits(dm.quot) \o <<Charset[dm.rem + 1]>>

\* URLShortener._encode_base62
EncodeBase62(num) ==
    IF num = IntOf(0) THEN <<Charset[1]>> ELSE EncodeDigits(num)

\* The first sequence number from num on whose code is not stored.
RECURSIVE FirstFree(_, _)
FirstFree(d, num) ==
    IF ~TruthyStr(DictGet(d.code_to_url, Rjust(EncodeBase62(num), CodeLength)))
    THEN num
    ELSE FirstFree(d, IntInc(num))

\* URLShortener._generate_code that counts one sequence number per call,
\* however many attempts the call discards.
GenerateCodeUncountedRetry(d) ==
    [db   |-> [d EXCEPT !.counter = IntInc(@)],
     code |-> Rjust(EncodeBase62(FirstFree(d, IntInc(d.counter))), CodeLength)]

\* URLShortener._generate_code without the check that the code is unused.
GenerateCodeNoRetry(d) ==
    LET d1 == [d EXCEPT !.counter = IntInc(@)]
    IN  [db |-> d1, code |-> Rjust(EncodeBase62(d1.counter), CodeLength)]

\* URLShortener._generate_code: increment the counter, encode and pad, and
\* try the next number while the code is already stored.
RECURSIVE GenerateCode(_)
GenerateCode(d) ==
    LET d1   == [d EXCEPT !.counter = IntInc(@)]
        code == Rjust(EncodeBase62(d1.counter), CodeLength)
    IN  IF ~TruthyStr(DbGetUrl(d1, code))
        THEN [db |-> d1, code |-> code]
        ELSE GenerateCode(d1)

\* URLShortener._is_valid_code
IsValidCode(code) ==
    /\ Len(code) = 7
    /\ \A i \in 1..Len(code) : code[i] \in CharsetSet

\* str.startswith
StartsWith(s, prefix) ==
    /\ Len(s) >= Len(prefix)
    /\ SubSeq(s, 1, Len(prefix)) = prefix

\* str.split('/')
RECURSIVE Split(_, _)
Split(s, cur) ==
    IF s = <<>> THEN <<cur>>
    ELSE IF Head(s) = "/" THEN <<cur>> \o Split(Tail(s), <<>>)
    ELSE Split(Tail(s), Append(cur, Head(s)))

\* The length limit of _is_valid_url.
MaxUrlLength == 2048

\* URLShortener._is_valid_url
IsValidUrl(url) ==
    IF Len(url) > MaxUrlLength THEN FALSE
    ELSE IF ~(\/ StartsWith(url, <<"h", "t", "t", "p", ":", "/", "/">>)
              \/ StartsWith(url, <<"h", "t", "t", "p", "s", ":", "/", "/">>))
    THEN FALSE
    ELSE LET parts == Split(url, <<>>)
         IN  IF Len(parts) < 3 THEN FALSE
             ELSE \E i \in 1..Len(parts[3]) : parts[3][i] = "."

\* Seconds added per expiry day (expiry_days * 24 * 60 * 60).
DaySeconds == 24 * 60 * 60

\* ----------------------------------------------------------------- inputs

\* Long URLs passed to create_short_url: two well formed, one not.
UrlA == <<"h", "t", "t", "p", ":", "/", "/", "a", ".", "b">>
UrlB == <<"h", "t", "t", "p", "s", ":", "/", "/", "c", ".", "d", "/", "x">>
NotAUrl == <<"n", "o", "t", "-", "a", "-", "u", "r", "l">>

LongUrls == {UrlA, UrlB, NotAUrl}

\* Custom codes passed to create_short_url: none, a well-formed one (which
\* is also the first code the generator produces), one that is too long and
\* one with a character outside the charset.
Code1 == <<"0", "0", "0", "0", "0", "0", "1">>
TooLong == <<"0", "0", "0", "2", "0", "0", "0", "2">>
BadChar == <<"A", "B", "C", "-", "E", "F", "G">>

CustomCodes == {None, Code1, TooLong, BadChar}

\* expiry_days passed to create_short_url: none or one day.
ExpiryDays == {NoneInt, 1}

\* Short codes passed to get_long_url and get_url_stats: the codes that can
\* be assigned, and one that never is.
Code2 == <<"0", "0", "0", "0", "0", "0", "2">>

ShortCodes == {Code1, Code2, TooLong}

\* Readings of the clock (epoch seconds): the start, one day later, and one
\* second after that.
ClockPoints == {0, DaySeconds, DaySeconds + 1}

\* ------------------------------------------------------------------ state

VARIABLES
    db,        \* the URLShortener's URLDatabase
    cache,     \* the URLShortener's LRUCache (or the LRUCache on its own)
    now,       \* the clock: what time.time() returns, in whole seconds
    ret,       \* the last step: operation, arguments, result
    created,   \* history: long URL -> first successful create_short_url
    resolved,  \* history: short code -> number of successful get_long_url
    recency,   \* history: keys of the LRUCache, most recently touched first
    calls      \* the create_short_url calls in progress, one frame per thread

vars == <<db, cache, now, ret, created, resolved, recency, calls>>

\* No call is in progress: every operation runs from call to return alone.
NoCalls == <<>>

\* A step record; the fields an operation does not use hold None.
Step(op, url, code, ok, val) ==
    [op |-> op, url |-> url, code |-> code, ok |-> ok, val |-> val]

\* URLShortener.__init__(cache_size), at the first clock reading.
Init ==
    /\ db = URLDatabaseNew
    /\ \E cache_size \in 1..MaxCacheSize : cache = LRUCacheNew(cache_size)
    /\ now = 0
    /\ ret = Step("init", None, None, TRUE, None)
    /\ created = [u \in {} |-> [code |-> None, days |-> NoneInt]]
    /\ resolved = [c \in {} |-> 0]
    /\ recency = <<>>
    /\ calls = NoCalls

\* ------------------------------------------------- URLShortener operations

\* The outcome of a call; d and c are the database and the cache it leaves.
Outcome(d, c, ok, val) == [db |-> d, cache |-> c, ok |-> ok, val |-> val]

\* URLShortener.create_short_url that puts an existing code back into the
\* cache before it returns it.
CreateOutcomeRecaches(d, c, long_url, custom_code, expiry_days, t, t_store) ==
    IF ~IsValidUrl(long_url)
    THEN Outcome(d, c, FALSE, "Invalid URL format")
    ELSE IF TruthyStr(DbGetCode(d, long_url))
    THEN Outcome(d, LRUPut(c, DbGetCode(d, long_url), long_url), TRUE,
                 DbGetCode(d, long_url))
    ELSE IF TruthyStr(custom_code) /\ ~IsValidCode(custom_code)
    THEN Outcome(d, c, FALSE, "Invalid custom code")
    ELSE IF TruthyStr(custom_code) /\ TruthyStr(DbGetUrl(d, custom_code))
    THEN Outcome(d, c, FALSE, "Custom code already in use")
    ELSE LET gen        == IF TruthyStr(custom_code)
                           THEN [db |-> d, code |-> custom_code]
                           ELSE GenerateCode(d)
             short_code == gen.code
             expiry     == IF TruthyInt(expiry_days)
                           THEN t + (expiry_days * 24 * 60 * 60)
                           ELSE NoneInt
         IN  Outcome(DbStore(gen.db, short_code, long_url, expiry, t_store),
                     LRUPut(c, short_code, long_url),
                     TRUE, short_code)

\* URLShortener.create_short_url that writes the custom code to the cache
\* before it checks that the code is unused.
CreateOutcomeCachesEarly(d, c, long_url, custom_code, expiry_days, t, t_store) ==
    IF ~IsValidUrl(long_url)
    THEN Outcome(d, c, FALSE, "Invalid URL format")
    ELSE IF TruthyStr(DbGetCode(d, long_url))
    THEN Outcome(d, c, TRUE, DbGetCode(d, long_url))
    ELSE IF TruthyStr(custom_code) /\ ~IsValidCode(custom_code)
    THEN Outcome(d, c, FALSE, "Invalid custom code")
    ELSE IF TruthyStr(custom_code) /\ TruthyStr(DbGetUrl(d, custom_code))
    THEN Outcome(d, LRUPut(c, custom_code, long_url), FALSE,
                 "Custom code already in use")
    ELSE LET gen        == IF TruthyStr(custom_code)
                           THEN [db |-> d, code |-> custom_code]
                           ELSE GenerateCode(d)
             short_code == gen.code
             expiry     == IF TruthyInt(expiry_days)
                           THEN t + (expiry_days * 24 * 60 * 60)
                           ELSE NoneInt
         IN  Outcome(DbStore(gen.db, short_code, long_url, expiry, t_store),
                     LRUPut(c, short_code, long_url),
                     TRUE, short_code)

\* URLShortener.create_short_url on database d and cache c.  t is the clock
\* reading of the expiry computation, t_store the later reading that
\* URLDatabase.store takes for created_at.
CreateOutcome(d, c, long_url, custom_code, expiry_days, t, t_store) ==
    IF ~IsValidUrl(long_url)
    THEN Outcome(d, c, FALSE, "Invalid URL format")
    ELSE IF TruthyStr(DbGetCode(d, long_url))
    THEN Outcome(d, c, TRUE, DbGetCode(d, long_url))
    ELSE IF TruthyStr(custom_code) /\ ~IsValidCode(custom_code)
    THEN Outcome(d, c, FALSE, "Invalid custom code")
    ELSE IF TruthyStr(custom_code) /\ TruthyStr(DbGetUrl(d, custom_code))
    THEN Outcome(d, c, FALSE, "Custom code already in use")
    ELSE LET gen        == IF TruthyStr(custom_code)
                           THEN [db |-> d, code |-> custom_code]
                           ELSE GenerateCode(d)
             short_code == gen.code
             expiry     == IF TruthyInt(expiry_days)
                           THEN t + (expiry_days * 24 * 60 * 60)
                           ELSE NoneInt
         IN  Outcome(DbStore(gen.db, short_code, long_url, expiry, t_store),
                     LRUPut(c, short_code, long_url),
                     TRUE, short_code)

\* Whether the call reaches URLDatabase.store (and so reads the clock there).
CreateStores(d, long_url, custom_code) ==
    /\ IsValidUrl(long_url)
    /\ ~TruthyStr(DbGetCode(d, long_url))
    /\ TruthyStr(custom_code) =>
         IsValidCode(custom_code) /\ ~TruthyStr(DbGetUrl(d, custom_code))

\* URLShortener.get_long_url that puts the code back into the cache before
\* it tests the expiry.
GetOutcomeRecachesExpired(d, c, short_code, t) ==
    LET hit == LRUGet(c, short_code)
    IN  IF TruthyStr(hit.value)
        THEN Outcome(DbIncrementVisits(d, short_code), hit.lru, TRUE, hit.value)
        ELSE IF ~TruthyStr(DbGetUrl(d, short_code))
        THEN Outcome(d, hit.lru, FALSE, "URL not found")
        ELSE IF /\ TruthyInt(d.stats[short_code].expires_at)
                /\ d.stats[short_code].expires_at < t
        THEN Outcome(d, LRUPut(hit.lru, short_code, DbGetUrl(d, short_code)),
                     FALSE, "URL has expired")
        ELSE Outcome(DbIncrementVisits(d, short_code),
                     LRUPut(hit.lru, short_code, DbGetUrl(d, short_code)),
                     TRUE, DbGetUrl(d, short_code))

\* URLShortener.get_long_url that tests the expiry before it looks into the
\* cache.
GetOutcomeExpiryFirst(d, c, short_code, t) ==
    IF /\ short_code \in DOMAIN d.stats
       /\ TruthyInt(d.stats[short_code].expires_at)
       /\ d.stats[short_code].expires_at < t
    THEN Outcome(d, c, FALSE, "URL has expired")
    ELSE LET hit == LRUGet(c, short_code)
         IN  IF TruthyStr(hit.value)
             THEN Outcome(DbIncrementVisits(d, short_code), hit.lru, TRUE,
                          hit.value)
             ELSE IF ~TruthyStr(DbGetUrl(d, short_code))
             THEN Outcome(d, hit.lru, FALSE, "URL not found")
             ELSE Outcome(DbIncrementVisits(d, short_code),
                          LRUPut(hit.lru, short_code, DbGetUrl(d, short_code)),
                          TRUE, DbGetUrl(d, short_code))

\* URLShortener.get_long_url that counts the visit before it tests the
\* expiry.
GetOutcomeCountsExpired(d, c, short_code, t) ==
    LET hit == LRUGet(c, short_code)
    IN  IF TruthyStr(hit.value)
        THEN Outcome(DbIncrementVisits(d, short_code), hit.lru, TRUE, hit.value)
        ELSE IF ~TruthyStr(DbGetUrl(d, short_code))
        THEN Outcome(d, hit.lru, FALSE, "URL not found")
        ELSE IF /\ TruthyInt(d.stats[short_code].expires_at)
                /\ d.stats[short_code].expires_at < t
        THEN Outcome(DbIncrementVisits(d, short_code), hit.lru, FALSE,
                     "URL has expired")
        ELSE Outcome(DbIncrementVisits(d, short_code),
                     LRUPut(hit.lru, short_code, DbGetUrl(d, short_code)),
                     TRUE, DbGetUrl(d, short_code))

\* URLShortener.get_long_url that does not count a visit on a cache hit.
GetOutcomeHitUncounted(d, c, short_code, t) ==
    LET hit == LRUGet(c, short_code)
    IN  IF TruthyStr(hit.value)
        THEN Outcome(d, hit.lru, TRUE, hit.value)
        ELSE IF ~TruthyStr(DbGetUrl(d, short_code))
        THEN Outcome(d, hit.lru, FALSE, "URL not found")
        ELSE IF /\ TruthyInt(d.stats[short_code].expires_at)
                /\ d.stats[short_code].expires_at < t
        THEN Outcome(d, hit.lru, FALSE, "URL has expired")
        ELSE Outcome(DbIncrementVisits(d, short_code),
                     LRUPut(hit.lru, short_code, DbGetUrl(d, short_code)),
                     TRUE, DbGetUrl(d, short_code))

\* URLShortener.get_long_url on database d and cache c at clock reading t.
GetOutcome(d, c, short_code, t) ==
    LET hit == LRUGet(c, short_code)
    IN  IF TruthyStr(hit.value)
        THEN Outcome(DbIncrementVisits(d, short_code), hit.lru, TRUE, hit.value)
        ELSE IF ~TruthyStr(DbGetUrl(d, short_code))
        THEN Outcome(d, hit.lru, FALSE, "URL not found")
        ELSE IF /\ TruthyInt(d.stats[short_code].expires_at)
                /\ d.stats[short_code].expires_at < t
        THEN Outcome(d, hit.lru, FALSE, "URL has expired")
        ELSE Outcome(DbIncrementVisits(d, short_code),
                     LRUPut(hit.lru, short_code, DbGetUrl(d, short_code)),
                     TRUE, DbGetUrl(d, short_code))

\* URLShortener.get_url_stats that counts the call as a visit.
StatsOutcomeCounted(d, c, short_code) ==
    IF short_code \notin DOMAIN d.stats
    THEN Outcome(d, c, FALSE, "URL not found")
    ELSE Outcome(DbIncrementVisits(d, short_code), c, TRUE, d.stats[short_code])

\* URLShortener.get_url_stats on database d.
StatsOutcome(d, c, short_code) ==
    IF short_code \notin DOMAIN d.stats
    THEN Outcome(d, c, FALSE, "URL not found")
    ELSE Outcome(d, c, TRUE, d.stats[short_code])

\* ---------------------------------------------------------------- actions

\* A call of create_short_url.  The clock may advance between the expiry
\* computation and the created_at reading inside store.
CreateShortUrl ==
    \E long_url \in LongUrls, custom_code \in CustomCodes,
       expiry_days \in ExpiryDays, t_store \in ClockPoints :
        LET out == CreateOutcome(db, cache, long_url, custom_code,
                                 expiry_days, now, t_store)
        IN  /\ t_store >= now
            /\ ~CreateStores(db, long_url, custom_code) => t_store = now
            /\ db' = out.db
            /\ cache' = out.cache
            /\ now' = t_store
            /\ ret' = Step("create_short_url", long_url, custom_code,
                           out.ok, out.val)
            /\ created' = IF out.ok /\ long_url \notin DOMAIN created
                          THEN DictSet(created, long_url,
                                       [code |-> out.val, days |-> expiry_days])
                          ELSE created
            /\ UNCHANGED <<resolved, recency, calls>>

\* A call of get_long_url.
GetLongUrl ==
    \E short_code \in ShortCodes :
        LET out == GetOutcome(db, cache, short_code, now)
        IN  /\ \A k \in DOMAIN out.db.stats :
                  out.db.stats[k].visit_count <= MaxVisits
            /\ db' = out.db
            /\ cache' = out.cache
            /\ ret' = Step("get_long_url", None, short_code, out.ok, out.val)
            /\ resolved' = IF out.ok
                           THEN DictSet(resolved, short_code,
                                        IF short_code \in DOMAIN resolved
                                        THEN resolved[short_code] + 1 ELSE 1)
                           ELSE resolved
            /\ UNCHANGED <<now, created, recency, calls>>

\* A call of get_url_stats.
GetUrlStats ==
    \E short_code \in ShortCodes :
        LET out == StatsOutcome(db, cache, short_code)
        IN  /\ db' = out.db
            /\ cache' = out.cache
            /\ ret' = Step("get_url_stats", None, short_code, out.ok, out.val)
            /\ UNCHANGED <<now, created, resolved, recency, calls>>

\* Time passes between two calls.
Tick ==
    \E t \in ClockPoints :
        /\ t > now
        /\ now' = t
        /\ ret' = Step("tick", None, None, TRUE, None)
        /\ UNCHANGED <<db, cache, created, resolved, recency, calls>>

Next == CreateShortUrl \/ GetLongUrl \/ GetUrlStats \/ Tick

Spec == Init /\ [][Next]_vars

\* ------------------------------------------------- the LRUCache on its own

\* Keys and values passed to LRUCache.get and LRUCache.put.
Code3 == <<"0", "0", "0", "0", "0", "0", "3">>

LRUKeys == {Code1, Code2, Code3}

LRUValues == {UrlA, UrlB}

\* The keys held by the cache's dictionary.
Keys(l) == DOMAIN l.cache

\* s without the element x.
Without(s, x) == SelectSeq(s, LAMBDA y : y # x)

\* The history of touches after key is touched: key first, the rest as before.
Touch(s, key) == <<key>> \o Without(s, key)

\* LRUCache(capacity) for a capacity >= 1.
InitLRU ==
    /\ db = URLDatabaseNew
    /\ \E capacity \in 1..MaxCapacity : cache = LRUCacheNew(capacity)
    /\ now = 0
    /\ ret = Step("init", None, None, TRUE, None)
    /\ created = [u \in {} |-> [code |-> None, days |-> NoneInt]]
    /\ resolved = [c \in {} |-> 0]
    /\ recency = <<>>
    /\ calls = NoCalls

\* A call of LRUCache.get.
CacheGet ==
    \E key \in LRUKeys :
        LET out == LRUGet(cache, key)
        IN  /\ cache' = out.lru
            /\ ret' = Step("get", None, key, TRUE, out.value)
            /\ recency' = IF key \in Keys(cache) THEN Touch(recency, key)
                          ELSE recency
            /\ UNCHANGED <<db, now, created, resolved, calls>>

\* A call of LRUCache.put.
CachePut ==
    \E key \in LRUKeys, value \in LRUValues :
        /\ cache' = LRUPut(cache, key, value)
        /\ ret' = Step("put", value, key, TRUE, None)
        /\ recency' = Touch(recency, key)
        /\ UNCHANGED <<db, now, created, resolved, calls>>

NextLRU == CacheGet \/ CachePut

SpecLRU == InitLRU /\ [][NextLRU]_vars

\* The set of the first n elements of s (all of them when s is shorter).
FirstN(s, n) == { s[i] : i \in 1..(IF Len(s) < n THEN Len(s) ELSE n) }

\* C5: LRU eviction order.  Once more than capacity distinct keys have been
\* put, the keys present are exactly the capacity most recently touched ones
\* (a get hit or a put is a touch), and a step that removes keys removes
\* exactly one: the key present before whose last touch is the oldest.
C5_LRUOrder ==
    /\ [](Len(recency) > cache.capacity =>
            Keys(cache) = FirstN(recency, cache.capacity))
    /\ [][Keys(cache) \ Keys(cache') # {} =>
            /\ Cardinality(Keys(cache) \ Keys(cache')) = 1
            /\ \E i \in 1..Len(recency) :
                 /\ Keys(cache) \ Keys(cache') = {recency[i]}
                 /\ \A j \in (i + 1)..Len(recency) :
                      recency[j] \notin Keys(cache)]_vars

\* C5 witness: a get hit on a cache of capacity 2 after three keys were put.
C5_Witness ==
    /\ cache.capacity = 2
    /\ Len(recency) = 3
    /\ ret.op = "get"
    /\ ret.val # None
    /\ Keys(cache) = {recency[1], recency[2]}

\* C6: capacity bound.  After every put the number of keys is at most the
\* capacity; a put of a new key into a full cache evicts exactly one entry
\* and a put of a key already present evicts none and keeps the key count.
C6_CapacityBound ==
    [][ret'.op = "put" =>
         /\ Cardinality(Keys(cache')) <= cache'.capacity
         /\ cache'.capacity = cache.capacity
         /\ (ret'.code \notin Keys(cache)
               /\ Cardinality(Keys(cache)) = cache.capacity) =>
              /\ Cardinality((Keys(cache) \cup {ret'.code}) \ Keys(cache')) = 1
              /\ Keys(cache') \subseteq Keys(cache) \cup {ret'.code}
         /\ ret'.code \in Keys(cache) => Keys(cache') = Keys(cache)]_vars

\* C6 witness: a put of a new key has just evicted an entry of a full cache.
C6_Witness ==
    /\ ret.op = "put"
    /\ Len(recency) > cache.capacity
    /\ Cardinality(Keys(cache)) = cache.capacity
    /\ ret.code \in Keys(cache)

\* C7: a get of a key that is not in the cache returns None and leaves the
\* cache as it was: dictionary, nodes, links and values.
C7_GetMissNoEffect ==
    [][(ret'.op = "get" /\ ret'.code \notin Keys(cache)) =>
         /\ ret'.val = None
         /\ cache' = cache]_vars

\* C7 witness: a get has just missed on a cache that holds other keys.
C7_Witness ==
    /\ ret.op = "get"
    /\ ret.code \notin Keys(cache)
    /\ ret.val = None
    /\ Keys(cache) # {}

\* ------------------------------------------------- claims on the engine

\* Whether the last step was a call of op.
Called(op) == ret.op = op

\* The codes some successful create_short_url has ever returned.
EverCreated == { created[u].code : u \in DOMAIN created }

\* C1: idempotence of create_short_url.  Once a create_short_url of a long
\* URL has returned (true, c), every later create_short_url of that URL, with
\* any custom code and expiry, returns (true, c).
C1_Idempotent ==
    (Called("create_short_url") /\ ret.url \in DOMAIN created) =>
        /\ ret.ok
        /\ ret.val = created[ret.url].code

\* C1 witness: a create_short_url that asked for a custom code has returned
\* the different code its URL already had, after some URL was resolved.
C1_Witness ==
    /\ Called("create_short_url")
    /\ ret.ok
    /\ ret.url \in DOMAIN created
    /\ TruthyStr(ret.code)
    /\ ret.code # ret.val
    /\ resolved # <<>>

\* C2: uniqueness.  code_to_url and url_to_code are mutual inverses and the
\* stats table has the same codes as code_to_url.
C2_MutualInverse ==
    /\ \A u \in DOMAIN db.url_to_code :
         /\ db.url_to_code[u] \in DOMAIN db.code_to_url
         /\ db.code_to_url[db.url_to_code[u]] = u
    /\ \A k \in DOMAIN db.code_to_url :
         /\ db.code_to_url[k] \in DOMAIN db.url_to_code
         /\ db.url_to_code[db.code_to_url[k]] = k
    /\ DOMAIN db.stats = DOMAIN db.code_to_url

\* C2 witness: two URLs are stored, one under a custom code that the
\* generator then had to skip for the other.
C2_Witness ==
    /\ Cardinality(DOMAIN db.url_to_code) = 2
    /\ db.counter = IntOf(2)
    /\ Code1 \in DOMAIN db.code_to_url
    /\ Code2 \in DOMAIN db.code_to_url

C4_Expiry ==
    (Called("get_long_url") /\ ret.code \in DOMAIN db.stats) =>
        \A u \in DOMAIN created :
            (created[u].code = ret.code /\ created[u].days >= 1) =>
                IF now < db.stats[ret.code].created_at
                            + created[u].days * 86400
                THEN ret.ok /\ ret.val = u
                ELSE ~ret.ok /\ ret.val = "URL has expired"

\* The visit_count the history gives a code: its successful get_long_url calls.
Resolved(k) == IF k \in DOMAIN resolved THEN resolved[k] ELSE 0

\* C8: visit counting.  Every successful get_long_url of a code, from the
\* cache or from the store, adds exactly 1 to that code's visit_count and
\* changes no other; so each visit_count equals the number of successful
\* get_long_url calls of its code, and none ever decreases.
C8_VisitCount ==
    /\ [](/\ DOMAIN resolved \subseteq DOMAIN db.stats
          /\ \A k \in DOMAIN db.stats : db.stats[k].visit_count = Resolved(k))
    /\ [][(ret'.op = "get_long_url" /\ ret'.ok) =>
            /\ ret'.code \in DOMAIN db.stats
            /\ DOMAIN db'.stats = DOMAIN db.stats
            /\ db'.stats[ret'.code].visit_count
                 = db.stats[ret'.code].visit_count + 1
            /\ \A k \in DOMAIN db.stats \ {ret'.code} :
                 db'.stats[k].visit_count = db.stats[k].visit_count]_vars
    /\ [][\A k \in DOMAIN db.stats :
            /\ k \in DOMAIN db'.stats
            /\ db'.stats[k].visit_count >= db.stats[k].visit_count]_vars

\* C8 witness: two codes have each been resolved, the last one by a call
\* that found the cache holding the other code.
C8_Witness ==
    /\ Called("get_long_url")
    /\ ret.ok
    /\ Cardinality(DOMAIN resolved) = 2
    /\ cache.capacity = 1
    /\ \A k \in DOMAIN db.stats : db.stats[k].visit_count = 1

\* C9: get_url_stats fails with "URL not found" exactly for a code no
\* create_short_url ever returned, and otherwise succeeds with the record's
\* created_at, expires_at and visit_count, expired or not; it changes
\* neither the database (counter included) nor the cache.
C9_Stats ==
    [][ret'.op = "get_url_stats" =>
         /\ ret'.ok <=> ret'.code \in EverCreated
         /\ ret'.ok => /\ ret'.val = db.stats[ret'.code]
                       /\ ret'.val.visit_count = Resolved(ret'.code)
         /\ ~ret'.ok => ret'.val = "URL not found"
         /\ db' = db
         /\ cache' = cache]_vars

\* C9 witness: get_url_stats has just returned the statistics of a visited
\* record whose expiry has passed.
C9_Witness ==
    /\ Called("get_url_stats")
    /\ ret.ok
    /\ ret.val.expires_at # NoneInt
    /\ ret.val.expires_at < now
    /\ ret.val.visit_count > 0

\* C10: cache/store agreement.  Every code the cache holds has a record in
\* the store, and the cached URL is the URL the store maps the code to.
C10_CacheAgrees ==
    \A k \in Keys(cache) :
        /\ k \in DOMAIN db.code_to_url
        /\ cache.nodes[cache.cache[k]].value = db.code_to_url[k]

\* C10 witness: the store holds two records and the cache holds one that a
\* get_long_url has just put back.
C10_Witness ==
    /\ Called("get_long_url")
    /\ ret.ok
    /\ Cardinality(DOMAIN db.code_to_url) = 2
    /\ ret.code \in Keys(cache)
    /\ Cardinality(Keys(cache)) < Cardinality(DOMAIN db.code_to_url)

\* --------------------------------------- code generation at large counters

\* num * base + digit for 0 <= digit < base <= 62, over the limbs.
IntMulAdd(num, base, digit) ==
    LET t == num.lo * base + digit
    IN  [hi |-> num.hi * base + t \div LimbBase, lo |-> t % LimbBase]

\* base ^ k - 2 for k >= 1: k - 1 digits base - 1, then the digit base - 2.
RECURSIVE PowerMinusTwo(_, _)
PowerMinusTwo(base, k) ==
    IF k = 1 THEN IntOf(base - 2)
    ELSE LET prev == PowerMinusTwo(base, k - 1)
         IN  IntMulAdd(IntInc(prev), base, base - 2)

\* Values of the sequence counter at which generation is checked: the start,
\* and two before each power of 62 up to 62 ^ 8, where the encoded number
\* gains a digit.
GenSeeds ==
    {IntOf(0)} \cup { PowerMinusTwo(Len(Charset), k) : k \in 1..(CodeLength + 1) }

\* A long URL shortened before the calls that are checked.
UrlC == <<"h", "t", "t", "p", ":", "/", "/", "e", ".", "f">>

\* The codes of the next two sequence numbers after num.
NextCodes(num) ==
    { Rjust(EncodeBase62(IntAdd(num, k)), CodeLength) : k \in 1..2 }

\* A URLShortener whose counter has reached a seed, and in which UrlC may
\* hold, as its custom code, one of the codes the generator produces next.
InitGen ==
    /\ \E seed \in GenSeeds :
         LET d == [URLDatabaseNew EXCEPT !.counter = seed]
         IN  \/ db = d
             \/ \E code \in NextCodes(seed) :
                  /\ IsValidCode(code)
                  /\ db = DbStore(d, code, UrlC, NoneInt, 0)
    /\ \E cache_size \in 1..MaxCacheSize : cache = LRUCacheNew(cache_size)
    /\ now = 0
    /\ ret = Step("init", None, None, TRUE, None)
    /\ created = [u \in {} |-> [code |-> None, days |-> NoneInt]]
    /\ resolved = [c \in {} |-> 0]
    /\ recency = <<>>
    /\ calls = NoCalls

\* A call of create_short_url that supplies neither custom code nor expiry.
CreateGenerated ==
    \E long_url \in LongUrls :
        LET out == CreateOutcome(db, cache, long_url, None, NoneInt, now, now)
        IN  /\ db' = out.db
            /\ cache' = out.cache
            /\ ret' = Step("create_short_url", long_url, None, out.ok, out.val)
            /\ created' = IF out.ok /\ long_url \notin DOMAIN created
                          THEN DictSet(created, long_url,
                                       [code |-> out.val, days |-> NoneInt])
                          ELSE created
            /\ UNCHANGED <<now, resolved, recency, calls>>

NextGen == CreateGenerated

SpecGen == InitGen /\ [][NextGen]_vars

\* C11: generated-code format.  Every code a create_short_url without custom
\* code returns has exactly 7 characters, all of the charset, whatever value
\* the sequence counter has reached.
C11_GeneratedFormat ==
    (Called("create_short_url") /\ ret.ok /\ ~TruthyStr(ret.code)) =>
        /\ Len(ret.val) = 7
        /\ \A i \in 1..Len(ret.val) : ret.val[i] \in CharsetSet

\* The code generated from sequence number num.
CodeOf(num) == Rjust(EncodeBase62(num), CodeLength)

\* C12: sequence counter.  It starts at 0; a create_short_url that generates
\* a code adds 1 per attempt, the attempts discarded because their code is
\* already stored included, and returns the code of the last number; no
\* other step changes the counter.
C12_Counter ==
    /\ [](Called("init") => db.counter = IntOf(0))
    /\ [][IF /\ ret'.op = "create_short_url"
             /\ ret'.ok
             /\ ret'.url \notin DOMAIN db.url_to_code
             /\ ~TruthyStr(ret'.code)
          THEN \E k \in 1..(Cardinality(DOMAIN db.code_to_url) + 1) :
                 /\ db'.counter = IntAdd(db.counter, k)
                 /\ ret'.val = CodeOf(IntAdd(db.counter, k))
                 /\ \A j \in 1..(k - 1) :
                      CodeOf(IntAdd(db.counter, j)) \in DOMAIN db.code_to_url
          ELSE db'.counter = db.counter]_vars

\* C12 witness: a create_short_url has just generated the code of sequence
\* number 2 while the code of number 1 is stored too.
C12_Witness ==
    /\ Called("create_short_url")
    /\ ret.ok
    /\ ~TruthyStr(ret.code)
    /\ ret.val = Code2
    /\ db.counter = IntOf(2)
    /\ Code1 \in DOMAIN db.code_to_url
    /\ db.url_to_code[ret.url] = Code2

\* ------------------------------------------- concurrent create_short_url

\* Two threads call create_short_url on one URLShortener.  The code takes no
\* lock; a thread can be preempted between the accesses to the database and
\* the cache: the get_code check, the choice of the code, store, cache.put.
Threads == {1, 2}

\* The frame of a call: where it is, its arguments, its locals, its result.
Frame(pc, long_url, custom_code, short_code, ok, val) ==
    [pc |-> pc, long_url |-> long_url, custom_code |-> custom_code,
     short_code |-> short_code, ok |-> ok, val |-> val]

\* The frame when the call returns (ok, val).
Return(f, ok, val) == [f EXCEPT !.pc = "done", !.ok = ok, !.val = val]

\* Both calls have been made on a new URLShortener; neither has run a line.
InitConc ==
    /\ db = URLDatabaseNew
    /\ \E cache_size \in 1..MaxCacheSize : cache = LRUCacheNew(cache_size)
    /\ now = 0
    /\ ret = Step("init", None, None, TRUE, None)
    /\ created = [u \in {} |-> [code |-> None, days |-> NoneInt]]
    /\ resolved = [c \in {} |-> 0]
    /\ recency = <<>>
    /\ calls \in [Threads ->
                    { Frame("check", u, k, None, FALSE, None) :
                        u \in {UrlA, UrlB}, k \in {None, Code1} }]

\* Lines 103-109: validate the URL, look for an existing code.
ThreadCheck(t) ==
    LET f == calls[t]
    IN  /\ f.pc = "check"
        /\ calls' = [calls EXCEPT ![t] =
             IF ~IsValidUrl(f.long_url)
             THEN Return(f, FALSE, "Invalid URL format")
             ELSE IF TruthyStr(DbGetCode(db, f.long_url))
             THEN Return(f, TRUE, DbGetCode(db, f.long_url))
             ELSE [f EXCEPT !.pc = "code"]]
        /\ UNCHANGED <<db, cache, now, ret, created, resolved, recency>>

\* Lines 112-119: take the custom code if it is valid and unused, else
\* generate one (which advances the counter).
ThreadCode(t) ==
    LET f == calls[t]
    IN  /\ f.pc = "code"
        /\ IF TruthyStr(f.custom_code) /\ ~IsValidCode(f.custom_code)
           THEN /\ calls' = [calls EXCEPT ![t] =
                               Return(f, FALSE, "Invalid custom code")]
                /\ db' = db
           ELSE IF /\ TruthyStr(f.custom_code)
                   /\ TruthyStr(DbGetUrl(db, f.custom_code))
           THEN /\ calls' = [calls EXCEPT ![t] =
                               Return(f, FALSE, "Custom code already in use")]
                /\ db' = db
           ELSE LET gen == IF TruthyStr(f.custom_code)
                           THEN [db |-> db, code |-> f.custom_code]
                           ELSE GenerateCode(db)
                IN  /\ calls' = [calls EXCEPT ![t] =
                          [f EXCEPT !.pc = "store", !.short_code = gen.code]]
                    /\ db' = gen.db
        /\ UNCHANGED <<cache, now, ret, created, resolved, recency>>

\* Line 128: self.db.store(short_code, long_url, expiry), no expiry asked.
ThreadStore(t) ==
    LET f == calls[t]
    IN  /\ f.pc = "store"
        /\ db' = DbStore(db, f.short_code, f.long_url, NoneInt, now)
        /\ calls' = [calls EXCEPT ![t] = [f EXCEPT !.pc = "put"]]
        /\ UNCHANGED <<cache, now, ret, created, resolved, recency>>

\* Lines 129-131: self.cache.put(short_code, long_url), return the code.
ThreadPut(t) ==
    LET f == calls[t]
    IN  /\ f.pc = "put"
        /\ cache' = LRUPut(cache, f.short_code, f.long_url)
        /\ calls' = [calls EXCEPT ![t] = Return(f, TRUE, f.short_code)]
        /\ UNCHANGED <<db, now, ret, created, resolved, recency>>

NextConc ==
    \E t \in Threads :
        ThreadCheck(t) \/ ThreadCode(t) \/ ThreadStore(t) \/ ThreadPut(t)

SpecConc == InitConc /\ [][NextConc]_vars

\* C13: concurrent creation.  Two concurrent create_short_url calls for the
\* same long URL, not shortened before, never both return success with two
\* different codes.
C13_ConcurrentCreate ==
    (/\ calls[1].pc = "done"
     /\ calls[2].pc = "done"
     /\ calls[1].long_url = calls[2].long_url
     /\ calls[1].ok
     /\ calls[2].ok) =>
        calls[1].val = calls[2].val

\* --------------------------------------------- claim on the list structure

\* The node references met from ref up to, not including, the sentinel
\* stop, following next (forward = TRUE) or prev (forward = FALSE).
RECURSIVE RefsFrom(_, _, _, _, _)
RefsFrom(l, ref, stop, forward, fuel) ==
    IF ref = stop \/ ref = NoneInt \/ ref \notin DOMAIN l.nodes \/ fuel = 0
    THEN <<>>
    ELSE <<ref>> \o RefsFrom(l, IF forward THEN l.nodes[ref].next
                                ELSE l.nodes[ref].prev,
                             stop, forward, fuel - 1)

\* The nodes between the sentinels, read forward from head.
RefsForward(l) ==
    RefsFrom(l, l.nodes[l.head].next, l.tail, TRUE, Cardinality(DOMAIN l.nodes))

\* The nodes between the sentinels, read backward from tail.
RefsBackward(l) ==
    RefsFrom(l, l.nodes[l.tail].prev, l.head, FALSE, Cardinality(DOMAIN l.nodes))

\* s in the opposite order.
Reverse(s) == [i \in 1..Len(s) |-> s[Len(s) + 1 - i]]

\* C19: LRU structure invariant.  After every completed get or put, the
\* keys of the key->node index are the keys of the nodes linked between
\* head and tail, each key is in the list once, the index entry of a key
\* is the node of that key in the list, and the list read forward from
\* head is the list read backward from tail, reversed.
C19_ListStructure ==
    LET fwd == RefsForward(cache)
        bwd == RefsBackward(cache)
    IN  /\ cache.nodes[IF fwd = <<>> THEN cache.head
                       ELSE fwd[Len(fwd)]].next = cache.tail
        /\ { cache.nodes[fwd[i]].key : i \in 1..Len(fwd) } = DOMAIN cache.cache
        /\ \A i, j \in 1..Len(fwd) :
             cache.nodes[fwd[i]].key = cache.nodes[fwd[j]].key => i = j
        /\ \A k \in DOMAIN cache.cache :
             /\ \E i \in 1..Len(fwd) : fwd[i] = cache.cache[k]
             /\ cache.nodes[cache.cache[k]].key = k
        /\ fwd = Reverse(bwd)

\* C19 witness: a get has hit and moved its node to the front of a list of
\* two nodes, after three different keys were put.
C19_Witness ==
    /\ Called("get")
    /\ TruthyStr(ret.val)
    /\ Len(recency) = 3
    /\ Len(RefsForward(cache)) = 2
    /\ cache.nodes[RefsForward(cache)[1]].key = ret.code
    /\ RefsBackward(cache)[1] # cache.cache[ret.code]

\* ------------------------------------------- claims on expiry and frames

\* The record of code k has an expiry that the clock has passed.
PastExpiry(k) ==
    /\ k \in DOMAIN db.stats
    /\ TruthyInt(db.stats[k].expires_at)
    /\ db.stats[k].expires_at < now

\* The state a get_long_url that fails with "URL has expired" finds: the
\* code is stored, not cached, and past its expiry.
ExpiredState(k) == PastExpiry(k) /\ k \notin Keys(cache)

\* The last step was a get_long_url that failed with message msg.
GetFailed(msg) == Called("get_long_url") /\ ~ret.ok /\ ret.val = msg

\* C14: no return from expired to active.  The state in which a
\* get_long_url of a code fails with "URL has expired" is never left, and
\* every get_long_url of the code in it fails with "URL has expired"; the
\* stored URL, created_at and expires_at of a record never change.
C14_ExpiredForever ==
    /\ [](GetFailed("URL has expired") => ExpiredState(ret.code))
    /\ [][\A k \in ShortCodes : ExpiredState(k) =>
            /\ ExpiredState(k)'
            /\ (ret'.op = "get_long_url" /\ ret'.code = k) =>
                 (~ret'.ok /\ ret'.val = "URL has expired")]_vars
    /\ [][\A k \in DOMAIN db.stats :
            /\ k \in DOMAIN db'.stats
            /\ db'.code_to_url[k] = db.code_to_url[k]
            /\ db'.stats[k].created_at = db.stats[k].created_at
            /\ db'.stats[k].expires_at = db.stats[k].expires_at]_vars

\* C14 witness: a get_long_url has failed with "URL has expired" for a code
\* that was resolved before, while the other URL is shortened too.
C14_Witness ==
    /\ GetFailed("URL has expired")
    /\ db.stats[ret.code].visit_count > 0
    /\ Cardinality(DOMAIN db.url_to_code) = 2

\* C15: expiry boundary on a cache miss.  A get_long_url that misses the
\* cache for a stored code with an expiry fails with "URL has expired"
\* whenever the clock is at or past expires_at, equality included.
C15_ExpiryBoundary ==
    [][(/\ ret'.op = "get_long_url"
        /\ ret'.code \notin Keys(cache)
        /\ ret'.code \in DOMAIN db.code_to_url
        /\ TruthyInt(db.stats[ret'.code].expires_at)
        /\ now >= db.stats[ret'.code].expires_at) =>
          (~ret'.ok /\ ret'.val = "URL has expired")]_vars

\* C16: a cache hit skips the expiry check.  A get_long_url of a code the
\* cache holds returns success with the cached URL and counts the visit,
\* also when the record's expiry has passed, and the code stays cached.
C16_HitSkipsExpiry ==
    [][(ret'.op = "get_long_url" /\ ret'.code \in Keys(cache)) =>
         /\ ret'.ok
         /\ ret'.val = cache.nodes[cache.cache[ret'.code]].value
         /\ db'.stats[ret'.code].visit_count
              = db.stats[ret'.code].visit_count + 1
         /\ ret'.code \in Keys(cache')]_vars

\* C16 witness: a get_long_url has just succeeded for a code whose expiry
\* has passed.
C16_Witness ==
    /\ Called("get_long_url")
    /\ ret.ok
    /\ PastExpiry(ret.code)
    /\ db.stats[ret.code].visit_count = 1

\* C17: a failed get_long_url changes nothing.  When get_long_url returns
\* "URL not found" or "URL has expired", the database (mappings, visit
\* counts, counter) and the cache (keys, values, order) are as before.
C17_FailedGetNoEffect ==
    [][(ret'.op = "get_long_url" /\ ~ret'.ok) =>
         /\ ret'.val \in {"URL not found", "URL has expired"}
         /\ db' = db
         /\ cache' = cache]_vars

\* C17 witness: a get_long_url has failed with "URL has expired" on a
\* visited record while the cache holds the other code.
C17_Witness ==
    /\ GetFailed("URL has expired")
    /\ db.stats[ret.code].visit_count = 1
    /\ Keys(cache) # {}
    /\ ret.code \notin Keys(cache)

\* C18: the idempotent path of create_short_url changes nothing.  A
\* create_short_url of a URL that already has a code returns that code and
\* leaves the database (record, counter) and the cache (contents, order)
\* unchanged; the requested custom code is bound to nothing.
C18_IdempotentNoEffect ==
    [][(ret'.op = "create_short_url" /\ ret'.url \in DOMAIN db.url_to_code) =>
         /\ ret'.ok
         /\ ret'.val = db.url_to_code[ret'.url]
         /\ db' = db
         /\ cache' = cache
         /\ ret'.code \notin DOMAIN db.code_to_url =>
              ret'.code \notin DOMAIN db'.code_to_url]_vars

\* C18 witness: a create_short_url that asked for a custom code no URL has
\* has returned the code its URL already had, which the cache no longer
\* holds.
C18_Witness ==
    /\ Called("create_short_url")
    /\ ret.ok
    /\ TruthyStr(ret.code)
    /\ ret.code \notin DOMAIN db.code_to_url
    /\ ret.val \notin Keys(cache)
    /\ db.url_to_code[ret.url] = ret.val

\* What a get_long_url of the code the last create_short_url returned gives
\* when it is called right away, at the same clock reading.
ResolveNow == GetOutcome(db, cache, ret.val, now)

\* C20 as stated: after every create_short_url that returns (true, c), on
\* the new-record path or the idempotent one, an immediate get_long_url(c)
\* returns (true, u).
C20_RoundTrip ==
    (Called("create_short_url") /\ ret.ok) =>
        (ResolveNow.ok /\ ResolveNow.val = ret.url)

\* The record of code k has an expiry the clock has reached or passed.
ExpiryReached(k) ==
    /\ k \in DOMAIN db.stats
    /\ TruthyInt(db.stats[k].expires_at)
    /\ now >= db.stats[k].expires_at

\* C20 amended: after a create_short_url that returns (true, c), an
\* immediate get_long_url(c) returns (true, u) if c is in the cache or its
\* record has no expiry or one the clock has not reached yet.
C20_RoundTripLive ==
    (/\ Called("create_short_url")
     /\ ret.ok
     /\ (ret.val \in Keys(cache) \/ ~ExpiryReached(ret.val))) =>
        (ResolveNow.ok /\ ResolveNow.val = ret.url)

\* C20 witness: a create_short_url has returned the existing code of a URL
\* whose record has an expiry, not yet reached, and is no longer cached.
C20_Witness ==
    /\ Called("create_short_url")
    /\ ret.ok
    /\ ret.val \notin Keys(cache)
    /\ TruthyInt(db.stats[ret.val].expires_at)
    /\ ~ExpiryReached(ret.val)
    /\ ResolveNow.ok

====
